---- MODULE Spec2Model ----
(***************************************************************************)
(* Model of the capture-and-export engine of PanikNippelboard:             *)
(* src/src/audio/recorder.py, class AudioRecorder.                         *)
(*                                                                         *)
(* One audio-callback context (the sounddevice stream thread) and two      *)
(* control contexts (the Qt GUI thread and the GPIO edge-detection thread) *)
(* share one AudioRecorder.  A "with self.lock" block is one atomic step;  *)
(* everything a method does outside the lock is a step of its own.         *)
(* Samples are numbered in arrival order: the k-th sample the source ever  *)
(* delivered is the number k.                                              *)
(***************************************************************************)
EXTENDS Integers, Sequences, FiniteSets, TLC

\* ---------------------------------------------------------------- bounds
\* Configuration values, scaled down.  __init__ reads them with config.get:
\*   ringbuffer_frames = int(sample_rate * ringbuffer_seconds)
\*   clip_post_frames  = int(sample_rate * clip_post_seconds)
\*   buffer_size       = audio.buffer_size
\*   clip_post_seconds = audio.clip_post_seconds
ringbuffer_frames == 2
clip_post_frames == 2
buffer_size == 1
clip_post_seconds == 1
\* crypto.salt_length, scaled down; plaintexts of at most MaxPlain bytes; the
\* number of passwords and of RSA key pairs in play.
salt_length == 2
MaxPlain == 2
NPasswords == 2
NKeyPairs == 2
\* The length of a long input file: its ciphertext and tag exceed the prefix
\* verify_password decrypts.
LongPlain == 85
\* The source delivers at most MaxTotal samples in a run, in blocks of at
\* most MaxBlock frames; the control contexts make at most MaxCalls calls;
\* the clock is read with a granularity of TickSeconds seconds.
MaxTotal == 3
MaxBlock == 3
\* audio.channels is at most MaxChannels.
MaxChannels == 2
MaxCalls == 3
TickSeconds == 3

\* "timeout = self.clip_post_seconds + 5  # Safety timeout"
SafetyTimeout == 5

\* "nonce = os.urandom(12)", the 16-byte tag of AES-GCM, and
\* "key_length.to_bytes(4, byteorder='big')".
NonceLen == 12
TagLen == 16
HeaderLen == 4
\* verify_password: f.read(1024) and ciphertext[:100].
VerifyRead == 1024
VerifyPrefix == 100

\* The control contexts: the Qt GUI thread and the GPIO callback thread.
Threads == {"gui", "gpio"}

VARIABLES
  config,            \* crypto.mode, existence of the public key file, audio.recording_format,
                     \* self.ringbuffer_frames, self.channels
  ringbuffer,        \* self.ringbuffer (deque, maxlen = ringbuffer_frames)
  is_running,        \* self.is_running
  is_panic_mode,     \* self.is_panic_mode
  panic_buffer,      \* self.panic_buffer
  panic_start_time,  \* self.panic_start_time (0 is None)
  stream,            \* self.stream: "none", "open" (created, not started) or "active"
  total,             \* number of samples the source has delivered so far
  calls,             \* number of calls made so far; the wall-clock stamp of a call
  files,             \* paths that exist on disk
  db,                \* rows inserted by add_recording
  th,                \* per control context: its position and the locals of its call
  seed_snapshot,     \* history: ring-buffer contents when start_panic_mode last seeded
  seed_total,        \* history: value of total when start_panic_mode last seeded
  crypto             \* one use of the crypto modules: handler, files, what was done

vars == << config, ringbuffer, is_running, is_panic_mode, panic_buffer,
           panic_start_time, stream, total, calls, files, db, th,
           seed_snapshot, seed_total, crypto >>

recorderVars == << ringbuffer, is_running, is_panic_mode, panic_buffer,
                   panic_start_time, stream >>
seedHistory == << seed_snapshot, seed_total >>

\* ------------------------------------------------------------- helpers
Min(a, b) == IF a < b THEN a ELSE b

\* The samples numbered a .. b, in order.
Ids(a, b) == [i \in 1..(IF b >= a THEN b - a + 1 ELSE 0) |-> a + i - 1]

\* Mutant of DequeAppend: a deque that never evicts (maxlen forgotten).
DequeAppendNoEvict(d, x, m) == Append(d, x)

\* Mutant of DequeAppend: a full deque refuses the new item instead of
\* dropping its oldest.
DequeAppendDropNew(d, x, m) ==
  IF Len(d) >= m THEN d ELSE Append(d, x)

\* collections.deque(maxlen=m).append(x): a full deque drops its oldest item.
DequeAppend(d, x, m) ==
  IF m = 0 THEN d
  ELSE IF Len(d) >= m THEN Append(Tail(d), x)
  ELSE Append(d, x)

\* collections.deque(maxlen=m).extend(xs): append the items one by one.
RECURSIVE DequeExtend(_, _, _)
DequeExtend(d, xs, m) ==
  IF xs = << >> THEN d
  ELSE DequeExtend(DequeAppend(d, Head(xs), m), Tail(xs), m)

\* Python's s[-k:]: the last k items, all of s when k >= len(s), and all of
\* s when k = 0 (s[-0:] is s[0:]).
PySliceLast(s, k) ==
  IF k = 0 \/ k >= Len(s) THEN s
  ELSE SubSeq(s, Len(s) - k + 1, Len(s))

\* Paths.  A clip's and a panic recording's names carry a time stamp.
ClipTempWav(id) == << "clips/temp.wav", id >>
ClipFinal(id) == << "clips/final", id >>
PanicTempWav(id) == << "panic/temp.wav", id >>
\* temp_audio = temp_{filename}.{recording_format}: the same path as temp_wav
\* when the format is wav.
PanicTempAudio(id) ==
  IF config.recording_format = "wav" THEN PanicTempWav(id)
  ELSE << "panic/temp.audio", id >>
PanicFinal(id) == << "panic/final.enc", id >>

\* A control context that is in no call; ret is how its last call returned.
\*   pc            position in the method it runs
\*   stamp         the time stamp its file name is built from
\*   pre_data      save_clip: pre_data
\*   post_buffer   _capture_post_audio: post_buffer
\*   elapsed       _capture_post_audio: time.time() - start_time, in seconds
\*   warned        _capture_post_audio: "Post-Audio Timeout erreicht" was logged
\*   panic_data    stop_panic_mode: panic_data
\*   trigger_total history: value of total when save_clip took its snapshot
\*   private_key   stop_panic_mode: crypto.private_key of the AsymmetricCrypto
\*                 object the call built (0: None, or no object built)
\*   unlocked      the fields among ringbuffer, panic_buffer and is_panic_mode
\*                 that the call read or wrote outside "with self.lock"
Idle(r) ==
  [pc |-> "idle", ret |-> r, stamp |-> 0, pre_data |-> << >>,
   post_buffer |-> << >>, elapsed |-> 0, warned |-> FALSE,
   panic_data |-> << >>, trigger_total |-> 0, private_key |-> 0,
   unlocked |-> {}]

\* The outcomes the caller sees as None.
NoneReturns == {"none_not_running", "none_not_active", "none_no_key", "none_exception"}

\* The crypto modules before any use.
\*   mode         "symmetric" (CryptoHandler) or "hybrid" (AsymmetricCrypto)
\*   importable   whether "from ...kdf.pbkdf2 import PBKDF2" finds the name
\*   phase        "plain", "sealed", "encrypt_raised", "opened" or "verified"
\*   plaintext    the bytes of the input file
\*   password     CryptoHandler.password
\*   sealed_with  the password or the key pair the container was made with
\*   public_key   the key pair whose public half the device holds
\*   container    the bytes of the encrypted file
\*   tampered     the position of the container byte of which a bit was flipped
\*                after the container was written (0: none)
\*   credential   the password or private key the decryption was tried with
\*   result       what decrypt_file or verify_password returned: "true",
\*                "false" or "raised"
\*   written      decrypt_file wrote its output file
\*   output       the bytes of the output file
CryptoIdle ==
  [mode |-> "symmetric", importable |-> TRUE, phase |-> "plain",
   plaintext |-> << >>, password |-> 1, sealed_with |-> 0, public_key |-> 1,
   container |-> << >>, tampered |-> 0, credential |-> 0, result |-> "-",
   written |-> FALSE, output |-> << >>]

\* ---------------------------------------------------------------- Init
\* __init__ with any configuration: it accepts a capacity of 0
\* (deque(maxlen=0)) and any channel count.
RecorderConstructed ==
  /\ config \in {c \in [crypto_mode : {"asymmetric", "symmetric"},
                        public_key_exists : BOOLEAN,
                        recording_format : {"wav", "mp3"},
                        ringbuffer_frames : {0, ringbuffer_frames},
                        channels : 1..MaxChannels] :
                   c.crypto_mode = "symmetric" => ~c.public_key_exists}
  /\ ringbuffer = << >>
  /\ is_running = FALSE
  /\ is_panic_mode = FALSE
  /\ panic_buffer = << >>
  /\ panic_start_time = 0
  /\ stream = "none"
  /\ total = 0
  /\ calls = 0
  /\ files = {}
  /\ db = << >>
  /\ th = [t \in Threads |-> Idle("-")]
  /\ seed_snapshot = << >>
  /\ seed_total = 0

\* The recorder as configured by default: a capacity above 0, one channel.
RecorderInit ==
  /\ RecorderConstructed
  /\ config.ringbuffer_frames = ringbuffer_frames
  /\ config.channels = 1

Init == RecorderInit /\ crypto = CryptoIdle

\* ------------------------------------------------------ start() and stop()
StreamAfterStart(outcome) ==
  CASE outcome = "ok" -> "active"
    [] outcome = "open_failed" -> stream
    [] outcome = "start_failed" -> "open"

Start ==
  /\ ~is_running
  /\ \E outcome \in {"ok", "open_failed", "start_failed"} :
       /\ is_running' = (outcome = "ok")
       /\ stream' = StreamAfterStart(outcome)
  /\ UNCHANGED << config, crypto, ringbuffer, is_panic_mode, panic_buffer, panic_start_time,
                  total, calls, files, db, th, seedHistory >>

\* Mutant of StopState: stop() without its early return.
StopStateAlways(running, strm) == << FALSE, "none" >>

\* stop() on (is_running, stream): "if not self.is_running: return", else the
\* flag is cleared and the stream stopped, closed and dropped.
StopState(running, strm) ==
  IF ~running THEN << running, strm >> ELSE << FALSE, "none" >>

\* Mutant of Stop: stopping a running recorder also ends the panic session.
StopDiscardsPanic ==
  /\ is_running' = StopState(is_running, stream)[1]
  /\ stream' = StopState(is_running, stream)[2]
  /\ is_panic_mode' = (is_panic_mode /\ ~is_running)
  /\ panic_buffer' = IF is_running THEN << >> ELSE panic_buffer
  /\ UNCHANGED << config, crypto, ringbuffer, panic_start_time,
                  total, calls, files, db, th, seedHistory >>

\* stop(): it touches is_running and the stream only.
Stop ==
  /\ is_running' = StopState(is_running, stream)[1]
  /\ stream' = StopState(is_running, stream)[2]
  /\ UNCHANGED << config, crypto, ringbuffer, is_panic_mode, panic_buffer, panic_start_time,
                  total, calls, files, db, th, seedHistory >>

\* ------------------------------------------------------- _audio_callback
\* Mutant of PanicExtend: the block is assigned, not appended.
PanicExtendAssign(buf, audio_data) ==
  IF is_panic_mode THEN audio_data ELSE buf

\* Mutant of PanicExtend: the panic flag is not consulted.
PanicExtendAlways(buf, audio_data) == buf \o audio_data

\* The panic buffer after the callback has handled the block audio_data.
PanicExtend(buf, audio_data) ==
  IF is_panic_mode THEN buf \o audio_data ELSE buf

\* The number of values in audio_data for a block indata of shape
\* (frames, channels): "if self.channels == 1 and len(indata.shape) > 1:
\* np.mean(indata, axis=1)  else: indata.copy().flatten()".
AudioDataLen(frames, channels) ==
  IF channels = 1 THEN frames ELSE frames * channels

\* Mutant of AudioCallback: the callback waits while a control context is
\* inside save_clip's or stop_panic_mode's export or post capture.
AudioCallbackBlockedByExport ==
  /\ stream = "active"
  /\ \A t \in Threads : th[t].pc \in {"idle", "sc_snapshot", "st_seed", "sp_take"}
  /\ total < MaxTotal
  /\ \E frames \in 1..MaxBlock :
       LET audio_data == Ids(total + 1, total + AudioDataLen(frames, config.channels)) IN
         /\ Len(audio_data) <= MaxTotal - total
         /\ ringbuffer' = DequeExtend(ringbuffer, audio_data, config.ringbuffer_frames)
         /\ panic_buffer' = PanicExtend(panic_buffer, audio_data)
         /\ total' = total + Len(audio_data)
  /\ UNCHANGED << config, crypto, is_running, is_panic_mode, panic_start_time, stream,
                  calls, files, db, th, seedHistory >>

\* _audio_callback: "with self.lock: ringbuffer.extend(audio_data); if
\* self.is_panic_mode: panic_buffer.extend(audio_data)".
AudioCallback ==
  /\ stream = "active"
  /\ total < MaxTotal
  /\ \E frames \in 1..MaxBlock :
       LET audio_data == Ids(total + 1, total + AudioDataLen(frames, config.channels)) IN
         /\ Len(audio_data) <= MaxTotal - total
         /\ ringbuffer' = DequeExtend(ringbuffer, audio_data, config.ringbuffer_frames)
         /\ panic_buffer' = PanicExtend(panic_buffer, audio_data)
         /\ total' = total + Len(audio_data)
  /\ UNCHANGED << config, crypto, is_running, is_panic_mode, panic_start_time, stream,
                  calls, files, db, th, seedHistory >>

\* ------------------------------------------------------ get_buffer_status
\* Reads the recorder under the lock; divides by self.ringbuffer_frames
\* (ZeroDivisionError when it is 0).
GetBufferStatus(t) ==
  /\ th[t].pc = "idle"
  /\ calls < MaxCalls
  /\ calls' = calls + 1
  /\ th' = [th EXCEPT ![t] = Idle(IF config.ringbuffer_frames = 0 THEN "raised" ELSE "status")]
  /\ UNCHANGED << config, crypto, recorderVars, total, files, db, seedHistory >>

\* ------------------------------------------------------------- save_clip
\* Mutant of SaveClipCall: no check of is_running.
SaveClipCallNoCheck(t) ==
  /\ th[t].pc = "idle"
  /\ calls < MaxCalls
  /\ calls' = calls + 1
  /\ \E mkdir_ok \in BOOLEAN :
       th' = [th EXCEPT ![t] =
                IF mkdir_ok
                  THEN [Idle("-") EXCEPT !.pc = "sc_snapshot", !.stamp = calls + 1]
                  ELSE Idle("raised")]
  /\ UNCHANGED << config, crypto, recorderVars, total, files, db, seedHistory >>

SaveClipCall(t) ==
  /\ th[t].pc = "idle"
  /\ calls < MaxCalls
  /\ calls' = calls + 1
  /\ IF ~is_running
       THEN th' = [th EXCEPT ![t] = Idle("none_not_running")]
       ELSE \E mkdir_ok \in BOOLEAN :
              th' = [th EXCEPT ![t] =
                       IF mkdir_ok
                         THEN [Idle("-") EXCEPT !.pc = "sc_snapshot", !.stamp = calls + 1]
                         ELSE Idle("raised")]
  /\ UNCHANGED << config, crypto, recorderVars, total, files, db, seedHistory >>

\* "with self.lock: pre_data = np.array(self.ringbuffer)", then the entry of
\* _capture_post_audio.
SaveClipSnapshot(t) ==
  /\ th[t].pc = "sc_snapshot"
  /\ th' = [th EXCEPT ![t].pre_data = ringbuffer,
                      ![t].trigger_total = total,
                      ![t].post_buffer = << >>,
                      ![t].elapsed = 0,
                      ![t].pc = "sc_post"]
  /\ UNCHANGED << config, crypto, recorderVars, total, calls, files, db, seedHistory >>

\* ---------------------------------------------------- _capture_post_audio
PostTimeout == clip_post_seconds + SafetyTimeout

\* What one pass of the loop body adds to post_buffer.
PostChunk(post) ==
  IF Len(ringbuffer) > 0
    THEN PySliceLast(ringbuffer, Min(buffer_size, clip_post_frames - Len(post)))
    ELSE << >>

\* One pass of the while loop that neither ends it nor times out.
PostPoll(t) ==
  /\ th[t].pc = "sc_post"
  /\ Len(th[t].post_buffer) < clip_post_frames
  /\ ~(th[t].elapsed > PostTimeout)
  /\ th' = [th EXCEPT ![t].post_buffer = @ \o PostChunk(@)]
  /\ UNCHANGED << config, crypto, recorderVars, total, calls, files, db, seedHistory >>

\* Mutant of PostExit: a loop without the timeout check.
PostExitNoTimeout(t) ==
  /\ th[t].pc = "sc_post"
  /\ ~(Len(th[t].post_buffer) < clip_post_frames)
  /\ th' = [th EXCEPT ![t].warned = FALSE, ![t].pc = "sc_export"]
  /\ UNCHANGED << config, crypto, recorderVars, total, calls, files, db, seedHistory >>

\* The loop ends: its condition is false, or the timeout check breaks out of it.
PostExit(t) ==
  /\ th[t].pc = "sc_post"
  /\ \/ ~(Len(th[t].post_buffer) < clip_post_frames)
     \/ th[t].elapsed > PostTimeout
  /\ th' = [th EXCEPT ![t].warned = Len(th[t].post_buffer) < clip_post_frames,
                      ![t].pc = "sc_export"]
  /\ UNCHANGED << config, crypto, recorderVars, total, calls, files, db, seedHistory >>

\* TickSeconds of wall-clock time pass for every loop that is waiting.
Tick ==
  /\ \E t \in Threads : th[t].pc = "sc_post" /\ th[t].elapsed <= PostTimeout
  /\ th' = [t \in Threads |->
              IF th[t].pc = "sc_post"
                THEN [th[t] EXCEPT !.elapsed = Min(@ + TickSeconds, PostTimeout + 1)]
                ELSE th[t]]
  /\ UNCHANGED << config, crypto, recorderVars, total, calls, files, db, seedHistory >>

\* ------------------------------------------------------ the export steps
\* sf.write(path, samples, sample_rate): it may fail, and a failed write may
\* leave the file it had begun.
WriteWav(fs, path, outcome) ==
  IF outcome = "failed" THEN fs ELSE fs \cup {path}

\* _convert_audio(input_path, output_path) on the files: wav renames the
\* input to the output (nothing to do when they are the same path), any other
\* format reads the input and writes the output.
ConvertAudio(fs, input_path, output_path, outcome) ==
  IF config.recording_format = "wav"
    THEN IF outcome = "ok" /\ input_path # output_path
           THEN (fs \ {input_path}) \cup {output_path}
           ELSE fs
    ELSE IF outcome = "failed" THEN fs ELSE fs \cup {output_path}

\* Mutant of Unlink: the file is left where it is.
UnlinkNothing(fs, path) == fs

\* path.unlink(missing_ok=True)
Unlink(fs, path) == fs \ {path}

\* add_recording(...): one row.
AddRecording(rows, recording_type, file_path, is_encrypted) ==
  Append(rows, [recording_type |-> recording_type, file_path |-> file_path,
                is_encrypted |-> is_encrypted])

\* -------------------------------------------------- save_clip: the export
\* The try block of save_clip after the post capture, in one step: write the
\* temporary WAV, convert it, delete it, read the size of the final file,
\* insert the row, call on_clip_saved.
\* "where" is the statement that raises (or "nowhere"), "partial" whether a
\* failed write leaves the file it had begun.
ClipFilesAfter(fs, id, where, partial) ==
  LET w == WriteWav(fs, ClipTempWav(id),
                    IF where # "write" THEN "ok"
                    ELSE IF partial THEN "failed_partial" ELSE "failed")
      c == ConvertAudio(w, ClipTempWav(id), ClipFinal(id),
                        IF where # "convert" THEN "ok"
                        ELSE IF partial THEN "failed_partial" ELSE "failed")
  IN  IF where = "write" THEN w
      ELSE IF where = "convert" THEN c
      ELSE Unlink(c, ClipTempWav(id))

SaveClipExport(t) ==
  /\ th[t].pc = "sc_export"
  /\ \E where \in {"nowhere", "write", "convert", "stat", "add_recording",
                     "on_clip_saved"},
        partial \in BOOLEAN :
       /\ files' = ClipFilesAfter(files, th[t].stamp, where, partial)
       /\ db' = IF where \in {"nowhere", "on_clip_saved"}
                  THEN AddRecording(db, "clip", ClipFinal(th[t].stamp), FALSE)
                  ELSE db
       /\ th' = [th EXCEPT ![t] =
                   Idle(IF where = "nowhere" THEN "clip_path" ELSE "none_exception")]
  /\ UNCHANGED << config, crypto, recorderVars, total, calls, seedHistory >>

\* ------------------------------------------------------ start_panic_mode
\* Mutant of StartPanicCall: no check of the flag.
StartPanicCallNoCheck(t) ==
  /\ th[t].pc = "idle"
  /\ calls < MaxCalls
  /\ calls' = calls + 1
  /\ th' = [th EXCEPT ![t] = [Idle("-") EXCEPT !.pc = "st_seed", !.stamp = calls + 1]]
  /\ UNCHANGED << config, crypto, recorderVars, total, files, db, seedHistory >>

\* "if self.is_panic_mode: logger.warning(...); return", read without the lock.
StartPanicCall(t) ==
  /\ th[t].pc = "idle"
  /\ calls < MaxCalls
  /\ calls' = calls + 1
  /\ th' = [th EXCEPT ![t] =
              IF is_panic_mode
                THEN [Idle("returned_already_active") EXCEPT
                        !.unlocked = {"is_panic_mode"}]
                ELSE [Idle("-") EXCEPT !.pc = "st_seed", !.stamp = calls + 1,
                                       !.unlocked = {"is_panic_mode"}]]
  /\ UNCHANGED << config, crypto, recorderVars, total, files, db, seedHistory >>

\* "with self.lock: is_panic_mode = True; panic_buffer = list(ringbuffer);
\* panic_start_time = datetime.now()".
StartPanicSeed(t) ==
  /\ th[t].pc = "st_seed"
  /\ is_panic_mode' = TRUE
  /\ panic_buffer' = ringbuffer
  /\ panic_start_time' = th[t].stamp
  /\ seed_snapshot' = ringbuffer
  /\ seed_total' = total
  /\ th' = [th EXCEPT ![t] = Idle("returned")]
  /\ UNCHANGED << config, crypto, ringbuffer, is_running, stream, total, calls, files, db >>

\* ------------------------------------------------------- stop_panic_mode
\* "if not self.is_panic_mode: return None", read without the lock.
StopPanicCall(t) ==
  /\ th[t].pc = "idle"
  /\ calls < MaxCalls
  /\ calls' = calls + 1
  /\ th' = [th EXCEPT ![t] =
              IF ~is_panic_mode
                THEN [Idle("none_not_active") EXCEPT !.unlocked = {"is_panic_mode"}]
                ELSE [Idle("-") EXCEPT !.pc = "sp_take",
                                       !.unlocked = {"is_panic_mode"}]]
  /\ UNCHANGED << config, crypto, recorderVars, total, files, db, seedHistory >>

\* "with self.lock: is_panic_mode = False; panic_data = np.array(panic_buffer);
\* panic_buffer = []; panic_duration = ...".
StopPanicTake(t) ==
  /\ th[t].pc = "sp_take"
  /\ is_panic_mode' = FALSE
  /\ th' = [th EXCEPT ![t].panic_data = panic_buffer, ![t].pc = "sp_name"]
  /\ panic_buffer' = << >>
  /\ UNCHANGED << config, crypto, ringbuffer, is_running, panic_start_time, stream, total,
                  calls, files, db, seedHistory >>

\* The file name from self.panic_start_time, read after the lock is released,
\* and panic_dir.mkdir(...), which is outside the try block.
StopPanicName(t) ==
  /\ th[t].pc = "sp_name"
  /\ \E mkdir_ok \in BOOLEAN :
       th' = [th EXCEPT ![t] =
                IF mkdir_ok
                  THEN [@ EXCEPT !.stamp = panic_start_time, !.pc = "sp_write"]
                  ELSE Idle("raised")]
  /\ UNCHANGED << config, crypto, recorderVars, total, calls, files, db, seedHistory >>

\* sf.write(temp_wav, panic_data, ...)
StopPanicWrite(t) ==
  /\ th[t].pc = "sp_write"
  /\ \E outcome \in {"ok", "failed", "failed_partial"} :
       /\ files' = WriteWav(files, PanicTempWav(th[t].stamp), outcome)
       /\ th' = [th EXCEPT ![t] =
                   IF outcome = "ok" THEN [@ EXCEPT !.pc = "sp_convert"]
                   ELSE Idle("none_exception")]
  /\ UNCHANGED << config, crypto, recorderVars, total, calls, db, seedHistory >>

\* self._convert_audio(temp_wav, temp_audio)
StopPanicConvert(t) ==
  /\ th[t].pc = "sp_convert"
  /\ \E outcome \in {"ok", "failed", "failed_partial"} :
       /\ files' = ConvertAudio(files, PanicTempWav(th[t].stamp),
                                PanicTempAudio(th[t].stamp), outcome)
       /\ th' = [th EXCEPT ![t] =
                   IF outcome = "ok" THEN [@ EXCEPT !.pc = "sp_encrypt"]
                   ELSE Idle("none_exception")]
  /\ UNCHANGED << config, crypto, recorderVars, total, calls, db, seedHistory >>

\* encrypt_file(input_path, output_path) on the files: it writes the
\* container, and a failure (it raises) may leave what it had written.
EncryptFile(fs, output_path, outcome) ==
  IF outcome = "failed" THEN fs ELSE fs \cup {output_path}

\* Path(path).exists() for the key files.  The private key file is taken to
\* lie next to the public one (generate_keypair writes both into one
\* directory), so that a constructor that looked for it would find it.
KeyFileExists(path) ==
  CASE path = "public_key.pem" -> config.public_key_exists
    [] path = "private_key.pem" -> TRUE
    [] OTHER -> FALSE

\* Mutant of AsymmetricCryptoInit: the private key is looked up at its
\* default place when no path is given.
AsymmetricCryptoInitDefaultPrivate(public_key_path, private_key_path) ==
  [public_key |-> IF public_key_path # "" /\ KeyFileExists(public_key_path)
                    THEN 1 ELSE 0,
   private_key |-> IF KeyFileExists("private_key.pem") THEN 1 ELSE 0]

\* AsymmetricCrypto(public_key_path, private_key_path): each key is loaded
\* when its path is given ("" is None) and the file exists; the loaded key
\* pair is 1, an unset key is 0.
AsymmetricCryptoInit(public_key_path, private_key_path) ==
  [public_key |-> IF public_key_path # "" /\ KeyFileExists(public_key_path)
                    THEN 1 ELSE 0,
   private_key |-> IF private_key_path # "" /\ KeyFileExists(private_key_path)
                     THEN 1 ELSE 0]

\* The asymmetric branch returns None when the public key file is missing;
\* otherwise it builds AsymmetricCrypto(public_key_path=public_key_path) and
\* encrypt_file reads temp_audio and writes file_path; encrypt_file raises
\* when it fails, and always when the object has no public key.
StopPanicEncrypt(t) ==
  /\ th[t].pc = "sp_encrypt"
  /\ IF config.crypto_mode = "asymmetric" /\ ~KeyFileExists("public_key.pem")
       THEN /\ th' = [th EXCEPT ![t] = Idle("none_no_key")]
            /\ UNCHANGED files
       ELSE \E outcome \in {"ok", "failed", "failed_partial"} :
              LET asym == AsymmetricCryptoInit("public_key.pem", "")
              IN  /\ outcome = "ok" =>
                       (config.crypto_mode = "asymmetric" => asym.public_key # 0)
                  /\ files' = EncryptFile(files, PanicFinal(th[t].stamp), outcome)
                  /\ th' = [th EXCEPT ![t] =
                              IF outcome = "ok"
                                THEN [@ EXCEPT !.pc = "sp_finish",
                                               !.private_key =
                                                  IF config.crypto_mode = "asymmetric"
                                                    THEN asym.private_key ELSE 0]
                                ELSE Idle("none_exception")]
  /\ UNCHANGED << config, crypto, recorderVars, total, calls, db, seedHistory >>

\* temp_wav.unlink(); temp_audio.unlink(); stat(); add_recording(...);
\* on_panic_saved(...); return encrypted_path.
StopPanicFinish(t) ==
  /\ th[t].pc = "sp_finish"
  /\ files' = Unlink(Unlink(files, PanicTempWav(th[t].stamp)),
                      PanicTempAudio(th[t].stamp))
  /\ \E outcome \in {"ok", "stat_failed", "db_failed", "callback_failed"} :
       /\ db' = IF outcome \in {"stat_failed", "db_failed"} THEN db
                ELSE AddRecording(db, "panic", PanicFinal(th[t].stamp), TRUE)
       /\ th' = [th EXCEPT ![t] =
                   Idle(IF outcome = "ok" THEN "panic_path" ELSE "none_exception")]
  /\ UNCHANGED << config, crypto, recorderVars, total, calls, seedHistory >>

\* ------------------------------------------------- the crypto primitives
\* The values a byte takes in the model.
Bits == {0, 1}
Passwords == 1..NPasswords
KeyPairs == 1..NKeyPairs
\* The input files: every short one, and two of LongPlain bytes.
PlainTexts ==
  UNION {[1..n -> Bits] : n \in 0..MaxPlain}
    \cup {[i \in 1..LongPlain |-> b] : b \in Bits}
\* os.urandom(n): the model draws the all-zero and the all-one string.
Urandom(n) == {[i \in 1..n |-> b] : b \in Bits}

\* f.read(n) at the start of a file, and the file after those n bytes.
Take(s, n) == SubSeq(s, 1, Min(n, Len(s)))
Drop(s, n) == SubSeq(s, Min(n, Len(s)) + 1, Len(s))

\* Mutant of ToBytesBig: the least significant byte comes first.
ToBytesLittle(n, len) == [i \in 1..len |-> (n \div (256 ^ (i - 1))) % 256]

\* n.to_bytes(len, byteorder='big') and int.from_bytes(b, byteorder='big').
ToBytesBig(n, len) == [i \in 1..len |-> (n \div (256 ^ (len - i))) % 256]
RECURSIVE FromBytesBig(_)
FromBytesBig(b) ==
  IF b = << >> THEN 0
  ELSE FromBytesBig(SubSeq(b, 1, Len(b) - 1)) * 256 + b[Len(b)]

\* A number that identifies a byte string (its bits after a leading 1).
RECURSIVE Code(_)
Code(b) ==
  IF b = << >> THEN 1
  ELSE 2 * Code(SubSeq(b, 1, Len(b) - 1)) + b[Len(b)]

\* PBKDF2 over (password, salt): a key that identifies both.
derive_key(password, salt) == password * (2 ^ (salt_length + 1)) + Code(salt)

\* AES in counter mode under (key, nonce): adding the key stream, which is
\* its own inverse on bits.
AesCtr(key, nonce, data) ==
  [i \in 1..Len(data) |-> (data[i] + key + Code(nonce) + i) % 2]

\* The GCM tag: TagLen bytes that identify (key, nonce, ciphertext); each
\* byte from the third on identifies the next 20 bytes of the ciphertext.
AesGcmTag(key, nonce, ct) ==
  [j \in 1..TagLen |->
     CASE j = 1 -> key
       [] j = 2 -> Code(nonce)
       [] OTHER -> Code(SubSeq(ct, (j - 3) * 20 + 1, Min((j - 2) * 20, Len(ct))))]

\* AESGCM(key).encrypt(nonce, plaintext, None): ciphertext, then the tag.
AesGcmEncrypt(key, nonce, plaintext) ==
  AesCtr(key, nonce, plaintext) \o AesGcmTag(key, nonce, AesCtr(key, nonce, plaintext))

\* Mutant of AesGcmDecrypt: the tag is not verified.
AesGcmDecryptUnchecked(key, nonce, data) ==
  [ok |-> TRUE,
   plaintext |-> AesCtr(key, nonce, Take(data, Len(data) - Min(TagLen, Len(data))))]

\* AESGCM(key).decrypt(nonce, data, None): raises InvalidTag unless the last
\* TagLen bytes are the tag of the rest under (key, nonce).
AesGcmDecrypt(key, nonce, data) ==
  IF Len(data) >= TagLen
       /\ Drop(data, Len(data) - TagLen)
            = AesGcmTag(key, nonce, Take(data, Len(data) - TagLen))
    THEN [ok |-> TRUE, plaintext |-> AesCtr(key, nonce, Take(data, Len(data) - TagLen))]
    ELSE [ok |-> FALSE, plaintext |-> << >>]

\* The length in bytes of what RSA key pair k outputs (it grows with the key).
WrapLen(k) == k + 1

\* public_key.encrypt(aes_key, OAEP): bytes that identify the key pair and
\* the wrapped key.
RsaOaepEncrypt(k, aes_key) ==
  [j \in 1..WrapLen(k) |->
     CASE j = 1 -> k
       [] j = 2 -> aes_key
       [] OTHER -> 0]

\* private_key.decrypt(wrapped, OAEP): raises unless wrapped was made for
\* this key pair.
RsaOaepDecrypt(k, wrapped) ==
  IF Len(wrapped) = WrapLen(k) /\ wrapped = RsaOaepEncrypt(k, wrapped[2])
    THEN [ok |-> TRUE, key |-> wrapped[2]]
    ELSE [ok |-> FALSE, key |-> 0]

\* One bit of a byte flipped (the lowest).
FlipBit(b) == IF b % 2 = 0 THEN b + 1 ELSE b - 1

\* ------------------------------------------------ the container formats
\* CryptoHandler.encrypt_file: [salt][nonce][ciphertext + tag].
SymmetricContainer(password, salt, nonce, plaintext) ==
  salt \o nonce \o AesGcmEncrypt(derive_key(password, salt), nonce, plaintext)

\* CryptoHandler.decrypt_file up to the decryption: read salt_length bytes,
\* 12 bytes, the rest; derive the key; decrypt.
SymmetricOpen(container, password) ==
  AesGcmDecrypt(derive_key(password, Take(container, salt_length)),
                Take(Drop(container, salt_length), NonceLen),
                Drop(container, salt_length + NonceLen))

\* AsymmetricCrypto.encrypt_file: [4-byte length][wrapped key][nonce]
\* [ciphertext + tag].
HybridContainer(k, aes_key, nonce, plaintext) ==
  ToBytesBig(Len(RsaOaepEncrypt(k, aes_key)), HeaderLen)
    \o RsaOaepEncrypt(k, aes_key) \o nonce \o AesGcmEncrypt(aes_key, nonce, plaintext)

\* AsymmetricCrypto.decrypt_file, what it reads from the file: f.read(4) as
\* the big-endian key length, f.read(key_length), f.read(12), f.read().
HybridFields(container) ==
  LET key_length == FromBytesBig(Take(container, HeaderLen))
      body == Drop(container, HeaderLen)
  IN  [key_length |-> key_length,
       encrypted_aes_key |-> Take(body, key_length),
       nonce |-> Take(Drop(body, key_length), NonceLen),
       ciphertext |-> Drop(body, key_length + NonceLen)]

\* AsymmetricCrypto.decrypt_file up to the decryption: parse the fields,
\* unwrap the key, decrypt.
HybridOpen(container, k) ==
  LET fields == HybridFields(container)
      unwrapped == RsaOaepDecrypt(k, fields.encrypted_aes_key)
  IN  IF unwrapped.ok
        THEN AesGcmDecrypt(unwrapped.key, fields.nonce, fields.ciphertext)
        ELSE [ok |-> FALSE, plaintext |-> << >>]

\* --------------------------------------------- the crypto operations
recorderState ==
  << config, recorderVars, total, calls, files, db, th, seedHistory >>

\* CryptoHandler().encrypt_file(input, output).  Importing the module runs
\* "from cryptography.hazmat.primitives.kdf.pbkdf2 import PBKDF2"; when the
\* library has no such name the import raises and nothing is written.
CryptoHandlerEncryptFile ==
  /\ crypto.mode = "symmetric"
  /\ crypto.phase = "plain"
  /\ IF ~crypto.importable
       THEN crypto' = [crypto EXCEPT !.phase = "encrypt_raised"]
       ELSE \E salt \in Urandom(salt_length), nonce \in Urandom(NonceLen) :
              crypto' = [crypto EXCEPT
                           !.phase = "sealed",
                           !.sealed_with = crypto.password,
                           !.container = SymmetricContainer(crypto.password, salt,
                                                            nonce, crypto.plaintext)]
  /\ UNCHANGED recorderState

\* CryptoHandler.decrypt_file(input, output, password): password 0 is None.
\* The explicit password replaces self.password for the call; the statement
\* that puts the old one back is skipped when the decryption raises.
CryptoHandlerDecryptFile ==
  /\ crypto.mode = "symmetric"
  /\ crypto.phase = "sealed"
  /\ \E password \in Passwords \cup {0} :
       LET used == IF password # 0 THEN password ELSE crypto.password
           opened == SymmetricOpen(crypto.container, used)
       IN  crypto' = [crypto EXCEPT
                        !.phase = "opened",
                        !.credential = used,
                        !.password = IF opened.ok THEN @ ELSE used,
                        !.result = IF opened.ok THEN "true" ELSE "false",
                        !.written = opened.ok,
                        !.output = opened.plaintext]
  /\ UNCHANGED recorderState

\* CryptoHandler.verify_password(encrypted_file, password): reads the salt,
\* the nonce and up to 1024 bytes, sets self.password, derives the key and
\* decrypts the first 100 of the bytes read; self.password is put back in
\* both outcomes.
CryptoHandlerVerifyPassword ==
  /\ crypto.mode = "symmetric"
  /\ crypto.phase = "sealed"
  /\ \E password \in Passwords :
       LET salt == Take(crypto.container, salt_length)
           nonce == Take(Drop(crypto.container, salt_length), NonceLen)
           ciphertext == Take(Drop(crypto.container, salt_length + NonceLen), VerifyRead)
           tested == AesGcmDecrypt(derive_key(password, salt), nonce,
                                   Take(ciphertext, VerifyPrefix))
       IN  crypto' = [crypto EXCEPT
                        !.phase = "verified",
                        !.credential = password,
                        !.result = IF tested.ok THEN "true" ELSE "false"]
  /\ UNCHANGED recorderState

\* AsymmetricCrypto(public_key_path).encrypt_file(input, output): raises
\* ValueError when no public key is loaded (public_key 0).
AsymmetricEncryptFile ==
  /\ crypto.mode = "hybrid"
  /\ crypto.phase = "plain"
  /\ IF crypto.public_key = 0
       THEN crypto' = [crypto EXCEPT !.phase = "encrypt_raised"]
       ELSE \E aes_key \in Bits, nonce \in Urandom(NonceLen) :
              crypto' = [crypto EXCEPT
                           !.phase = "sealed",
                           !.sealed_with = crypto.public_key,
                           !.container = HybridContainer(crypto.public_key, aes_key,
                                                         nonce, crypto.plaintext)]
  /\ UNCHANGED recorderState

\* AsymmetricCrypto(private_key_path=...).decrypt_file(input, output): raises
\* ValueError when no private key is loaded (private_key 0).
AsymmetricDecryptFile ==
  /\ crypto.mode = "hybrid"
  /\ crypto.phase = "sealed"
  /\ \E private_key \in KeyPairs \cup {0} :
       LET opened == IF private_key = 0 THEN [ok |-> FALSE, plaintext |-> << >>]
                     ELSE HybridOpen(crypto.container, private_key)
       IN  crypto' = [crypto EXCEPT
                        !.phase = "opened",
                        !.credential = private_key,
                        !.result = IF private_key = 0 THEN "raised"
                                   ELSE IF opened.ok THEN "true" ELSE "false",
                        !.written = opened.ok,
                        !.output = opened.plaintext]
  /\ UNCHANGED recorderState

\* Someone with access to the stored file flips one bit of it.
Tamper ==
  /\ crypto.phase = "sealed"
  /\ crypto.tampered = 0
  /\ \E i \in 1..Len(crypto.container) :
       crypto' = [crypto EXCEPT !.tampered = i,
                                !.container = [@ EXCEPT ![i] = FlipBit(@)]]
  /\ UNCHANGED recorderState

\* ------------------------------------------------------- specifications
\* The steps of a clip capture up to its export.
ClipCaptureStep(t) ==
  \/ SaveClipCall(t)
  \/ SaveClipSnapshot(t)
  \/ PostPoll(t)
  \/ PostExit(t)

\* The steps of a panic session up to its export.
PanicCaptureStep(t) ==
  \/ StartPanicCall(t)
  \/ StartPanicSeed(t)
  \/ StopPanicCall(t)
  \/ StopPanicTake(t)

\* The steps of a clip capture and its export.
ClipStep(t) ==
  \/ SaveClipCall(t)
  \/ SaveClipSnapshot(t)
  \/ PostPoll(t)
  \/ PostExit(t)
  \/ SaveClipExport(t)

\* The steps of a panic session and its export.
PanicStep(t) ==
  \/ StartPanicCall(t)
  \/ StartPanicSeed(t)
  \/ StopPanicCall(t)
  \/ StopPanicTake(t)
  \/ StopPanicName(t)
  \/ StopPanicWrite(t)
  \/ StopPanicConvert(t)
  \/ StopPanicEncrypt(t)
  \/ StopPanicFinish(t)

\* The crypto configuration and the recording format play no part before
\* the export.
InitCapture ==
  Init /\ config.crypto_mode = "symmetric" /\ config.recording_format = "mp3"

\* The recorder up to the point where each call hands its private copy of
\* the samples to the export: a clip capture stays at "sc_export" and a panic
\* stop at "sp_name" while the export runs.  The GPIO thread captures clips;
\* both control contexts start and stop panic sessions and poll the status.
NextCapture ==
  \/ Start
  \/ Stop
  \/ AudioCallback
  \/ Tick
  \/ ClipCaptureStep("gpio")
  \/ \E t \in Threads : PanicCaptureStep(t) \/ GetBufferStatus(t)

SpecCapture == InitCapture /\ [][NextCapture]_vars

\* One clip capture against the audio source, with the scheduling the code
\* relies on: time passes (time.sleep returns) and the capturing thread runs.
NextPost ==
  \/ Start
  \/ Stop
  \/ AudioCallback
  \/ Tick
  \/ ClipCaptureStep("gpio")

SpecPost ==
  /\ InitCapture
  /\ [][NextPost]_vars
  /\ WF_vars(Tick)
  /\ WF_vars(PostExit("gpio"))

\* The recorder with clip capture and its export: the GPIO thread captures
\* clips while the GUI thread polls the status.  The crypto configuration
\* plays no part.
InitClip == Init /\ config.crypto_mode = "symmetric"

NextClip ==
  \/ Start
  \/ Stop
  \/ AudioCallback
  \/ Tick
  \/ ClipStep("gpio")
  \/ GetBufferStatus("gui")

SpecClip == InitClip /\ [][NextClip]_vars

\* The recorder with panic sessions and their export, from both control
\* contexts.
NextPanic ==
  \/ Start
  \/ Stop
  \/ AudioCallback
  \/ \E t \in Threads : PanicStep(t) \/ GetBufferStatus(t)

SpecPanic == Init /\ [][NextPanic]_vars

\* The recorder with both exports, called one after the other from the GPIO
\* thread (its clip button and its panic button), with a usable public key.
\* The post capture ends by reaching its target.
InitExport ==
  Init /\ config.crypto_mode = "asymmetric" /\ config.public_key_exists

NextExport ==
  \/ Start
  \/ Stop
  \/ AudioCallback
  \/ ClipStep("gpio")
  \/ PanicStep("gpio")

SpecExport == InitExport /\ [][NextExport]_vars

\* The crypto modules on their own: a file is encrypted, perhaps tampered
\* with, and decrypted with some password or private key.  Files are readable
\* and writable.
InitCrypto ==
  /\ RecorderInit
  /\ config.crypto_mode = "asymmetric" /\ config.public_key_exists
  /\ config.recording_format = "mp3"
  /\ crypto \in
       {[CryptoIdle EXCEPT !.importable = imp, !.plaintext = p, !.password = pw] :
          imp \in BOOLEAN, p \in PlainTexts, pw \in Passwords}
       \cup
       {[CryptoIdle EXCEPT !.mode = "hybrid", !.plaintext = p, !.public_key = k] :
          p \in PlainTexts, k \in KeyPairs \cup {0}}

NextCrypto ==
  \/ CryptoHandlerEncryptFile
  \/ CryptoHandlerDecryptFile
  \/ CryptoHandlerVerifyPassword
  \/ AsymmetricEncryptFile
  \/ AsymmetricDecryptFile
  \/ Tamper

SpecCrypto == InitCrypto /\ [][NextCrypto]_vars

\* The recorder under any configuration of capacity and channel count, with
\* the audio source and the status poll of the GUI timer.
InitConfig ==
  /\ RecorderConstructed
  /\ config.crypto_mode = "symmetric" /\ config.recording_format = "mp3"
  /\ crypto = CryptoIdle

NextConfig ==
  \/ Start
  \/ Stop
  \/ AudioCallback
  \/ \E t \in Threads : GetBufferStatus(t)

SpecConfig == InitConfig /\ [][NextConfig]_vars

\* ================================================================ claims
\* The last min(C, n) of the first n samples delivered, oldest first.
LastPushed(n) == Ids(n - Min(n, ringbuffer_frames) + 1, n)

\* The positions of a call in which its snapshot pre_data is held.
ClipHolding == {"sc_post", "sc_export"}
\* The positions of a stop_panic_mode call after it has taken the buffer.
PanicTaken == {"sp_name", "sp_write", "sp_convert", "sp_encrypt", "sp_finish"}
\* The temporary plaintext files of a panic export.
PlaintextPanicFiles ==
  {f \in files : f[1] \in {"panic/temp.wav", "panic/temp.audio"}}

\* C1: while and after stop_panic_mode exports a panic session, the only
\* files on disk for panic sessions are encrypted containers: no plaintext
\* file of the panic samples ever exists.
C1_OnlyEncryptedPanicFiles ==
  \A f \in files : f[1] = "panic/final.enc"

\* C2: when stop_panic_mode returns because the public key file is missing,
\* it returns None and no plaintext file of the panic buffer is on disk.
C2_NoKeyLeavesNoPlaintext ==
  \A t \in Threads :
    th[t].ret = "none_no_key" =>
      /\ th[t].ret \in NoneReturns
      /\ PlaintextPanicFiles = {}

\* C3: the ring buffer never holds more than C = ringbuffer_frames samples,
\* and neither does any snapshot of it: save_clip's pre_data, the seed of
\* start_panic_mode, the chunk a post-capture poll reads.
C3_RingBounded ==
  /\ Len(ringbuffer) <= ringbuffer_frames
  /\ Len(seed_snapshot) <= ringbuffer_frames
  /\ \A t \in Threads :
       /\ Len(th[t].pre_data) <= ringbuffer_frames
       /\ Len(PostChunk(th[t].post_buffer)) <= ringbuffer_frames

\* C3 witness: more samples than C were delivered, the buffer is full, and a
\* clip snapshot and a panic seed were taken from the full buffer.
C3_Witness ==
  /\ total > ringbuffer_frames
  /\ Len(ringbuffer) = ringbuffer_frames
  /\ is_panic_mode
  /\ Len(seed_snapshot) = ringbuffer_frames
  /\ \E t \in Threads :
       th[t].pc \in ClipHolding /\ Len(th[t].pre_data) = ringbuffer_frames

\* C4: a snapshot of the ring buffer is the last C samples delivered, oldest
\* first, when more than C were delivered, and all of them in order
\* otherwise: for the buffer itself, for save_clip's pre_data and for the
\* seed of start_panic_mode.
C4_SnapshotIsLastPushed ==
  /\ ringbuffer = LastPushed(total)
  /\ seed_snapshot = LastPushed(seed_total)
  /\ \A t \in Threads :
       th[t].pc \in ClipHolding =>
         th[t].pre_data = LastPushed(th[t].trigger_total)

\* C4 witness: a clip snapshot taken after more than C samples were delivered.
C4_Witness ==
  \E t \in Threads :
    /\ th[t].pc \in ClipHolding
    /\ th[t].trigger_total > ringbuffer_frames
    /\ Len(th[t].pre_data) = ringbuffer_frames
    /\ th[t].pre_data[1] = th[t].trigger_total - ringbuffer_frames + 1

\* The seed of the current panic session followed by every sample delivered
\* since, once each and in order.
SeedPlusPushed == seed_snapshot \o Ids(seed_total + 1, total)

C6_PostIsNewSamplesOnly ==
  \A t \in Threads :
    th[t].pc \in ClipHolding =>
      th[t].post_buffer =
        Ids(th[t].trigger_total + 1, th[t].trigger_total + Len(th[t].post_buffer))

\* C7: the post capture does not complete before clip_post_frames new samples
\* were delivered since the trigger snapshot, unless the timeout of
\* clip_post_seconds + 5 seconds has elapsed.
C7_PostWaitsForNewSamples ==
  \A t \in Threads :
    th[t].pc = "sc_export" =>
      \/ total - th[t].trigger_total >= clip_post_frames
      \/ th[t].elapsed > clip_post_seconds + SafetyTimeout

C9_StalledSourceShortfall ==
  \A t \in Threads :
    (/\ th[t].pc = "sc_export"
     /\ total = th[t].trigger_total
     /\ th[t].pre_data # << >>) =>
      /\ Len(th[t].post_buffer) < clip_post_frames
      /\ th[t].warned

\* C10: the step of stop_panic_mode that takes the buffer leaves the panic
\* buffer empty and the flag cleared and takes exactly what was accumulated;
\* afterwards no delivered sample is added to the taken buffer, nor to the
\* panic buffer while the flag is cleared.
C10_StopTakesAtomically ==
  [][\A t \in Threads :
       /\ (th[t].pc = "sp_take" /\ th'[t].pc = "sp_name") =>
            /\ th'[t].panic_data = panic_buffer
            /\ panic_buffer' = << >>
            /\ ~is_panic_mode'
       /\ (th[t].pc \in PanicTaken /\ th'[t].pc \in PanicTaken) =>
            th'[t].panic_data = th[t].panic_data
       /\ (total' # total /\ ~is_panic_mode) =>
            panic_buffer' = panic_buffer]_vars

\* C10 witness: a stop holds a taken, non-empty buffer, the flag is cleared,
\* the panic buffer is empty, and a sample was delivered after the take.
C10_Witness ==
  \E t \in Threads :
    /\ th[t].pc = "sp_name"
    /\ th[t].panic_data # << >>
    /\ ~is_panic_mode
    /\ panic_buffer = << >>
    /\ total > th[t].panic_data[Len(th[t].panic_data)]

\* C11: an export of save_clip that fails in one of its steps (writing the
\* temporary WAV, converting, reading the size, inserting the row) returns
\* None and leaves on disk no file that it created.
C11_FailedExportLeavesNoFile ==
  [][(/\ th["gpio"].pc = "sc_export"
      /\ th'["gpio"].ret = "none_exception"
      /\ db' = db) => files' \subseteq files]_vars

\* C13: save_clip called while the recorder is running returns the path or
\* None; no failure of a step, creating the output directory included, reaches
\* the caller as an exception.  (In SpecClip the GPIO thread calls save_clip
\* only.)
C13_SaveClipNeverRaises == th["gpio"].ret # "raised"

\* C16: a call of start_panic_mode made while the recorder is not running
\* returns without entering the locked block that sets is_panic_mode and
\* seeds the panic buffer.
C16_StartPanicOnlyWhileRunning ==
  [][\A t \in Threads :
       (th[t].pc = "idle" /\ th'[t].pc = "st_seed") => is_running]_vars

\* C17: a call of start_panic_mode made while panic mode is active never
\* enters the locked block, and the call that returns with the warning leaves
\* is_panic_mode, the panic buffer and the activation time as they were.
C17_StartPanicWhileActiveIsNoOp ==
  [][\A t \in Threads :
       /\ (th[t].pc = "idle" /\ th'[t].pc = "st_seed") => ~is_panic_mode
       /\ (th[t].pc = "idle" /\ calls' # calls
             /\ th'[t].ret = "returned_already_active") =>
            /\ th'[t].pc = "idle"
            /\ is_panic_mode' = is_panic_mode
            /\ panic_buffer' = panic_buffer
            /\ panic_start_time' = panic_start_time]_vars

\* C17 witness: a call returned with the warning while the session holds more
\* samples than the ring buffer does, and the session's seed and start time
\* are those of its activation.
C17_Witness ==
  \E t \in Threads :
    /\ th[t].ret = "returned_already_active"
    /\ is_panic_mode
    /\ Len(panic_buffer) > Len(ringbuffer)
    /\ panic_buffer = SeedPlusPushed
    /\ panic_start_time # 0

\* C18: after a start() that failed, because the stream could not be opened
\* or could not be started, the recorder is idle and holds no stream: while
\* is_running is false, self.stream is None.
C18_FailedStartLeavesIdle == ~is_running => stream = "none"

\* C19: stop() is idempotent: while the recorder is not running it changes
\* neither is_running nor the stream, from a running recorder it leaves
\* is_running false and no stream, and a second stop() changes nothing more.
C19_StopIdempotent ==
  LET once == StopState(is_running, stream)
      twice == StopState(once[1], once[2])
  IN  /\ ~is_running => once = << is_running, stream >>
      /\ is_running => once = << FALSE, "none" >>
      /\ twice = once

\* C19 witness: the recorder was stopped after it had recorded.
C19_Witness == ~is_running /\ stream = "none" /\ total > 0

\* C20: save_clip called while the recorder is not running returns None and
\* does nothing else: no snapshot, no post capture, no file, no row.  (In
\* SpecClip the GPIO thread calls save_clip only.)
C20_SaveClipNotRunningDoesNothing ==
  [][(th["gpio"].pc = "idle" /\ th'["gpio"] # th["gpio"] /\ ~is_running) =>
       /\ th'["gpio"] = Idle("none_not_running")
       /\ files' = files
       /\ db' = db
       /\ UNCHANGED recorderVars]_vars

\* C20 witness: save_clip returned None from a stopped recorder whose ring
\* buffer holds samples, and there is neither a file nor a row.
C20_Witness ==
  /\ th["gpio"].ret = "none_not_running"
  /\ ~is_running
  /\ ringbuffer # << >>
  /\ files = {}
  /\ db = << >>

\* The row an export inserts.
ClipRow(id) ==
  [recording_type |-> "clip", file_path |-> ClipFinal(id), is_encrypted |-> FALSE]
PanicRow(id) ==
  [recording_type |-> "panic", file_path |-> PanicFinal(id), is_encrypted |-> TRUE]

\* C12: when save_clip or stop_panic_mode returns a path, the temporary files
\* of that export are gone and the export has inserted exactly one row, its
\* own: ('clip', not encrypted) for a clip, ('panic', encrypted) for a panic
\* recording; and no row ever says 'panic' and not encrypted.
C12_ReturnedPathMeansCleanExport ==
  /\ [](\A i \in 1..Len(db) :
          /\ db[i].recording_type = "panic" => db[i].is_encrypted
          /\ db[i].recording_type = "clip" => ~db[i].is_encrypted)
  /\ [][/\ (th["gpio"].pc = "sc_export" /\ th'["gpio"].ret = "clip_path") =>
             /\ ClipTempWav(th["gpio"].stamp) \notin files'
             /\ ClipFinal(th["gpio"].stamp) \in files'
             /\ db' = Append(db, ClipRow(th["gpio"].stamp))
        /\ (th["gpio"].pc = "sp_finish" /\ th'["gpio"].ret = "panic_path") =>
             /\ PanicTempWav(th["gpio"].stamp) \notin files'
             /\ PanicTempAudio(th["gpio"].stamp) \notin files'
             /\ PanicFinal(th["gpio"].stamp) \in files'
             /\ db' = Append(db, PanicRow(th["gpio"].stamp))
        /\ (/\ th["gpio"].pc \in PanicTaken \ {"sp_finish"}
            /\ th'["gpio"] # th["gpio"]) => db' = db]_vars

\* C12 witness: a clip and a panic recording were both exported and returned
\* their paths; each has its row and no temporary file is left.
C12_Witness ==
  /\ th["gpio"].ret = "panic_path"
  /\ Len(db) = 2
  /\ db[1].recording_type = "clip"
  /\ db[2].recording_type = "panic"
  /\ \A f \in files : f[1] \in {"clips/final", "panic/final.enc"}

\* The decryption was tried with the credential the container was made with.
MatchingCredential == crypto.credential = crypto.sealed_with

\* C14: for every plaintext, encrypt_file produces a container (symmetric
\* under the handler's password, hybrid under a loaded public key), and
\* decrypting that container, untouched, with the same password or with the
\* matching private key succeeds and writes exactly the plaintext.
C14_RoundTrip ==
  /\ crypto.phase = "encrypt_raised" =>
       crypto.mode = "hybrid" /\ crypto.public_key = 0
  /\ (crypto.phase = "opened" /\ crypto.tampered = 0 /\ MatchingCredential) =>
       /\ crypto.result = "true"
       /\ crypto.written
       /\ crypto.output = crypto.plaintext

\* C15: decrypt_file, given a container of which a bit was flipped or a
\* password or private key other than the one used to encrypt, returns False
\* and writes no output file.
C15_DecryptFailsClosed ==
  (/\ crypto.phase = "opened"
   /\ crypto.credential # 0
   /\ crypto.tampered # 0 \/ ~MatchingCredential) =>
    /\ crypto.result = "false"
    /\ ~crypto.written
    /\ crypto.output = << >>

\* C15 witness: a decryption with the right credential was refused because a
\* bit of the tag had been flipped, and nothing was written.
C15_Witness ==
  /\ crypto.phase = "opened"
  /\ MatchingCredential
  /\ crypto.tampered > Len(crypto.container) - TagLen
  /\ crypto.plaintext # << >>
  /\ crypto.result = "false"
  /\ ~crypto.written

\* C21: a recorder with a ring-buffer capacity of 0 does not come into
\* being: construction fails, so no such recorder is ever started, is ever
\* pushed a sample or ever answers a status query.
C21_ZeroCapacityRejected ==
  config.ringbuffer_frames = 0 =>
    /\ ~is_running
    /\ total = 0
    /\ calls = 0

\* C26: for every configured channel count, a block of F frames puts exactly
\* F samples into the ring buffer: once the callback is pushing blocks, what
\* it pushes for a block has one value per frame.
C26_OneSamplePerFrame ==
  total > 0 =>
    \A frames \in 1..MaxBlock : AudioDataLen(frames, config.channels) = frames

C23_PrivateKeyNeverLoaded ==
  \A t \in Threads :
    /\ th[t].private_key = 0
    /\ (th[t].pc = "sp_finish" /\ config.crypto_mode = "asymmetric") =>
         /\ AsymmetricCryptoInit("public_key.pem", "") = [public_key |-> 1, private_key |-> 0]
         /\ PanicFinal(th[t].stamp) \in files

\* C23's case: a panic recording of at least one sample was sealed in
\* asymmetric mode.
C23_Witness ==
  \E t \in Threads :
    /\ th[t].pc = "sp_finish"
    /\ config.crypto_mode = "asymmetric"
    /\ th[t].panic_data # << >>
    /\ PanicFinal(th[t].stamp) \in files

\* C24: every read and write of the ring buffer, the panic buffer and
\* is_panic_mode by the callback, save_clip, start_panic_mode,
\* stop_panic_mode and get_buffer_status happens while holding the lock,
\* the already-active check of start_panic_mode and the not-active check of
\* stop_panic_mode included: no call has touched one of them outside it.
C24_AllAccessUnderLock ==
  \A t \in Threads : th[t].unlocked = {}

\* The positions at which a call does export work on its own copy of the
\* samples, and those at which the post-capture loop is between two polls.
ExportWork == {"sc_export", "sp_name", "sp_write", "sp_convert", "sp_encrypt", "sp_finish"}
PostSleep == {"sc_post"}

C27_VerifyPasswordExact ==
  (crypto.phase = "verified" /\ crypto.tampered = 0) =>
    /\ crypto.result = "true" <=> MatchingCredential
    /\ crypto.password = crypto.sealed_with

\* C28: decrypt_file called with an explicit password leaves the handler's
\* configured password (the one the container was sealed with) unchanged,
\* when the decryption succeeds and when it fails.
C28_DecryptKeepsPassword ==
  (crypto.mode = "symmetric" /\ crypto.phase = "opened") =>
    crypto.password = crypto.sealed_with

\* C29: each panic session yields at most one export under concurrent
\* stop_panic_mode calls: a call takes the buffer only while the session is
\* active (every other call returns None before the take), and no output
\* file gets a second metadata record.
C29_OneExportPerSession ==
  /\ [][\A t \in Threads :
         (th[t].pc = "sp_take" /\ th'[t].pc = "sp_name") => is_panic_mode]_vars
  /\ [](\A i, j \in 1..Len(db) :
          (db[i].file_path = db[j].file_path) => i = j)

\* C30: stop() called while a panic session is active does not discard the
\* session: the step that stops the recorder leaves is_panic_mode, the panic
\* buffer and the activation time unchanged; no sample is delivered while
\* the stream is not active, which it never is while the recorder is stopped;
\* so a stopped recorder with an active session still holds the snapshot
\* and every sample delivered up to the stop, and a stop_panic_mode that
\* takes then takes exactly that.
C30_StopKeepsPanicSession ==
  /\ [][(is_running /\ ~is_running') =>
         /\ stream' = "none"
         /\ is_panic_mode' = is_panic_mode
         /\ panic_buffer' = panic_buffer
         /\ panic_start_time' = panic_start_time]_vars
  /\ [][(stream # "active") => total' = total]_vars
  /\ [](~is_running => stream # "active")
  /\ []((~is_running /\ is_panic_mode) => panic_buffer = SeedPlusPushed)
  /\ [][\A t \in Threads :
         (th[t].pc = "sp_take" /\ th'[t].pc = "sp_name" /\ ~is_running /\ is_panic_mode) =>
           /\ th'[t].panic_data = SeedPlusPushed
           /\ ~is_panic_mode']_vars

\* C30's case: the recorder was stopped during a panic session that has
\* accumulated samples since its activation, the session is still active,
\* and a stop_panic_mode is about to take the buffer.
C30_Witness ==
  /\ ~is_running
  /\ stream = "none"
  /\ is_panic_mode
  /\ total > seed_total
  /\ panic_buffer = SeedPlusPushed
  /\ \E t \in Threads : th[t].pc = "sp_take"

====
